---- MODULE Spec2Model ----
(***************************************************************************)
(* Calciomercato Social API (src/main.py, src/schemas.py): four            *)
(* collections of a document store, the create handlers with their         *)
(* referential checks, and the read handlers with their $lookup/$unwind    *)
(* pipelines and id flattening.                                            *)
(*                                                                         *)
(* Values are tagged the way BSON/JSON values are typed: a string, a       *)
(* number, null, a list, an ObjectId and an embedded document are          *)
(* different kinds of value, and the store compares values of different    *)
(* kinds as unequal.  Identifier strings are sequences of characters, so   *)
(* that ObjectId.is_valid, ObjectId(s) and str(oid) are computed.          *)
(* The store is assumed reachable (db is not None).                        *)
(***************************************************************************)
EXTENDS Integers, Sequences, FiniteSets, TLC

VARIABLES db, req

vars == <<db, req>>

\* ------------------------------------------------------------------ bounds
MaxDocs == 4
OidBase == 10

\* the clients whose requests may be in flight together
Clients == {"c1", "c2"}

\* ------------------------------------------------------------ tagged values
JNull == [t |-> "null", v |-> <<>>]
JStr(s) == [t |-> "str", v |-> s]
JNum(n) == [t |-> "num", v |-> n]
JList(s) == [t |-> "list", v |-> s]
JOid(n) == [t |-> "oid", v |-> n]
JDoc(d) == [t |-> "doc", v |-> d]

EmptyDoc == <<>>

Field(d, k) == IF k \in DOMAIN d THEN d[k] ELSE JNull

\* Python truthiness of an Optional[str]
Truthy(x) == x.t # "null" /\ x.v # <<>>

\* ------------------------------------------------------------ bson.ObjectId
OidHexLen == 24

HexDigits == <<"0", "1", "2", "3", "4", "5", "6", "7", "8", "9", "a", "b", "c", "d", "e", "f">>

UpperDigits == <<"0", "1", "2", "3", "4", "5", "6", "7", "8", "9", "A", "B", "C", "D", "E", "F">>

HexChars == {HexDigits[i] : i \in 1..16} \cup {UpperDigits[i] : i \in 1..16}

HexVal == [c \in HexChars |-> (CHOOSE i \in 1..16 : HexDigits[i] = c \/ UpperDigits[i] = c) - 1]

RECURSIVE HexOf(_, _)
HexOf(n, len) == IF len = 0 THEN <<>> ELSE Append(HexOf(n \div 16, len - 1), HexDigits[(n % 16) + 1])

\* the value of the first i hex characters of s
RECURSIVE ParseHex(_, _)
ParseHex(s, i) == IF i = 0 THEN 0 ELSE ParseHex(s, i - 1) * 16 + HexVal[s[i]]

\* str(ObjectId): 24 lower-case hex characters (tabulated for the ids in use)
OidStrs == [n \in 0..(OidBase + MaxDocs + 1) |-> HexOf(n, OidHexLen)]

OidStr(n) == OidStrs[n]

\* ObjectId.is_valid(s) for a str s
ObjectIdIsValid(x) == x.t = "str" /\ Len(x.v) = OidHexLen /\ \A i \in 1..Len(x.v) : x.v[i] \in HexChars

\* ObjectId(s) for a valid s
ObjectId(x) == JOid(ParseHex(x.v, Len(x.v)))

\* --------------------------------------------------------- request schemas
Opt(type, default) == [type |-> type, optional |-> TRUE, required |-> FALSE, default |-> default]
Req(type) == [type |-> type, optional |-> FALSE, required |-> TRUE, default |-> JNull]
Def(type, default) == [type |-> type, optional |-> FALSE, required |-> FALSE, default |-> default]

PlayerIn == [name |-> Req("str"), position |-> Req("str"), age |-> Opt("num", JNull), nationality |-> Opt("str", JNull), current_club_id |-> Opt("str", JNull), height_cm |-> Opt("num", JNull), preferred_foot |-> Opt("str", JNull), bio |-> Opt("str", JNull), skills |-> Opt("list", JList(<<>>)), market_value |-> Opt("num", JNull)]

ClubIn == [name |-> Req("str"), league |-> Opt("str", JNull), country |-> Opt("str", JNull), budget |-> Opt("num", JNum(0)), stadium |-> Opt("str", JNull), bio |-> Opt("str", JNull)]

ListingIn == [player_id |-> Req("str"), from_club_id |-> Opt("str", JNull), asking_price |-> Req("num"), status |-> Def("str", JStr("open"))]

OfferIn == [listing_id |-> Req("str"), club_id |-> Req("str"), offer_amount |-> Req("num"), status |-> Def("str", JStr("pending")), message |-> Opt("str", JNull)]

\* pydantic validation of a request body against a BaseModel
Validates(schema, raw) ==
    /\ \A f \in DOMAIN schema : schema[f].required => f \in DOMAIN raw
    /\ \A f \in DOMAIN schema \cap DOMAIN raw :
           \/ raw[f].t = schema[f].type
           \/ raw[f].t = "null" /\ schema[f].optional

\* BaseModel.model_dump(): every declared field, defaults applied
ModelDump(schema, raw) == [f \in DOMAIN schema |-> IF f \in DOMAIN raw THEN raw[f] ELSE schema[f].default]

\* ------------------------------------------------------------------- store
Collections == {"player", "club", "transferlisting", "transferoffer"}

NumDocs == Len(db["player"]) + Len(db["club"]) + Len(db["transferlisting"]) + Len(db["transferoffer"])

\* the identifier the engine assigns to the next inserted document
NewOid == OidBase + NumDocs

\* db[coll].find_one({"_id": oid})
FindOne(coll, oid) == \E i \in 1..Len(db[coll]) : db[coll][i]["_id"] = oid

\* create_document(coll, data): one atomic insert, the new id as a string
Inserted(coll, data) == [db EXCEPT ![coll] = Append(@, ("_id" :> JOid(NewOid)) @@ data)]

\* get_documents(coll): every document, insertion order, "_id" still present
get_documents(coll) == db[coll]

Idle == [pc |-> "idle", ep |-> "none", raw |-> EmptyDoc, status |-> 0, id |-> <<>>, result |-> <<>>, lookups |-> 0, wrote |-> FALSE]

Init ==
    /\ db = [c \in Collections |-> <<>>]
    /\ req = [r \in Clients |-> Idle]

Free(r) == req[r].pc = "idle"

Done(r, ep, raw, status, lookups) == req' = [req EXCEPT ![r] = [Idle EXCEPT !.pc = "done", !.ep = ep, !.raw = raw, !.status = status, !.lookups = lookups]]

Pending(r, ep, raw, pc, lookups) == req' = [req EXCEPT ![r] = [Idle EXCEPT !.pc = pc, !.ep = ep, !.raw = raw, !.lookups = lookups]]

Created(r, coll, schema) ==
    /\ NumDocs < MaxDocs
    /\ db' = Inserted(coll, ModelDump(schema, req[r].raw))
    /\ req' = [req EXCEPT ![r] = [@ EXCEPT !.pc = "done", !.status = 200, !.id = OidStr(NewOid), !.wrote = TRUE]]

\* --------------------------------------------------------- create handlers
\* create_player that stores the request body as sent, defaults not applied
create_player_NoDump(r, raw) ==
    /\ Free(r)
    /\ IF ~Validates(PlayerIn, raw)
       THEN Done(r, "post_players", raw, 422, 0) /\ UNCHANGED db
       ELSE /\ NumDocs < MaxDocs
            /\ db' = Inserted("player", raw)
            /\ req' = [req EXCEPT ![r] = [Idle EXCEPT !.pc = "done", !.ep = "post_players", !.raw = raw, !.status = 200, !.id = OidStr(NewOid), !.wrote = TRUE]]

\* POST /players
create_player(r, raw) ==
    /\ Free(r)
    /\ IF ~Validates(PlayerIn, raw)
       THEN Done(r, "post_players", raw, 422, 0) /\ UNCHANGED db
       ELSE /\ NumDocs < MaxDocs
            /\ db' = Inserted("player", ModelDump(PlayerIn, raw))
            /\ req' = [req EXCEPT ![r] = [Idle EXCEPT !.pc = "done", !.ep = "post_players", !.raw = raw, !.status = 200, !.id = OidStr(NewOid), !.wrote = TRUE]]

\* POST /clubs
create_club(r, raw) ==
    /\ Free(r)
    /\ IF ~Validates(ClubIn, raw)
       THEN Done(r, "post_clubs", raw, 422, 0) /\ UNCHANGED db
       ELSE /\ NumDocs < MaxDocs
            /\ db' = Inserted("club", ModelDump(ClubIn, raw))
            /\ req' = [req EXCEPT ![r] = [Idle EXCEPT !.pc = "done", !.ep = "post_clubs", !.raw = raw, !.status = 200, !.id = OidStr(NewOid), !.wrote = TRUE]]

\* create_listing that looks the player up before it checks the format
create_listing_checks_LookupFirst(m) ==
    IF ~(ObjectIdIsValid(m.player_id) /\ FindOne("player", ObjectId(m.player_id))) THEN [status |-> 404, lookups |-> 1]
    ELSE IF Truthy(m.from_club_id) /\ ~ObjectIdIsValid(m.from_club_id) THEN [status |-> 400, lookups |-> 1]
    ELSE [status |-> 0, lookups |-> 1]

\* create_listing without its "Player not found" check
create_listing_checks_NoPlayerCheck(m) ==
    IF ~ObjectIdIsValid(m.player_id) THEN [status |-> 400, lookups |-> 0]
    ELSE IF Truthy(m.from_club_id) /\ ~ObjectIdIsValid(m.from_club_id) THEN [status |-> 400, lookups |-> 0]
    ELSE [status |-> 0, lookups |-> 1]

\* create_listing up to its insert: the status it raises (0: none) and the
\* number of find_one calls it has made
create_listing_checks(m) ==
    IF ~ObjectIdIsValid(m.player_id) THEN [status |-> 400, lookups |-> 0]
    ELSE IF Truthy(m.from_club_id) /\ ~ObjectIdIsValid(m.from_club_id) THEN [status |-> 400, lookups |-> 0]
    ELSE IF ~FindOne("player", ObjectId(m.player_id)) THEN [status |-> 404, lookups |-> 1]
    ELSE [status |-> 0, lookups |-> 1]

\* POST /listings: validation, format checks and the player lookup
create_listing(r, raw) ==
    /\ Free(r)
    /\ UNCHANGED db
    /\ IF ~Validates(ListingIn, raw)
       THEN Done(r, "post_listings", raw, 422, 0)
       ELSE LET c == create_listing_checks(ModelDump(ListingIn, raw))
            IN  IF c.status # 0
                THEN Done(r, "post_listings", raw, c.status, c.lookups)
                ELSE Pending(r, "post_listings", raw, "insert", c.lookups)

\* POST /listings: the insert
create_listing_insert(r) ==
    /\ req[r].pc = "insert"
    /\ req[r].ep = "post_listings"
    /\ Created(r, "transferlisting", ListingIn)

\* create_offer that looks the listing up before it checks club_id's format
create_offer_checks_ListingFirst(m) ==
    IF ~ObjectIdIsValid(m.listing_id) THEN [status |-> 400, lookups |-> 0]
    ELSE IF ~FindOne("transferlisting", ObjectId(m.listing_id)) THEN [status |-> 404, lookups |-> 1]
    ELSE IF ~ObjectIdIsValid(m.club_id) THEN [status |-> 400, lookups |-> 1]
    ELSE [status |-> 0, lookups |-> 1]

\* create_offer up to its second lookup
create_offer_checks(m) ==
    IF ~ObjectIdIsValid(m.listing_id) \/ ~ObjectIdIsValid(m.club_id) THEN [status |-> 400, lookups |-> 0]
    ELSE IF ~FindOne("transferlisting", ObjectId(m.listing_id)) THEN [status |-> 404, lookups |-> 1]
    ELSE [status |-> 0, lookups |-> 1]

\* create_offer without its "Club not found" check
create_offer_club_check_Skipped(m) == [status |-> 0, lookups |-> 2]

\* create_offer's second lookup
create_offer_club_check(m) ==
    IF ~FindOne("club", ObjectId(m.club_id)) THEN [status |-> 404, lookups |-> 2]
    ELSE [status |-> 0, lookups |-> 2]

\* POST /offers: validation, format checks and the listing lookup
create_offer(r, raw) ==
    /\ Free(r)
    /\ UNCHANGED db
    /\ IF ~Validates(OfferIn, raw)
       THEN Done(r, "post_offers", raw, 422, 0)
       ELSE LET c == create_offer_checks(ModelDump(OfferIn, raw))
            IN  IF c.status # 0
                THEN Done(r, "post_offers", raw, c.status, c.lookups)
                ELSE Pending(r, "post_offers", raw, "club", c.lookups)

\* POST /offers: the club lookup
create_offer_club(r) ==
    /\ req[r].pc = "club"
    /\ req[r].ep = "post_offers"
    /\ UNCHANGED db
    /\ LET c == create_offer_club_check(ModelDump(OfferIn, req[r].raw))
       IN  IF c.status # 0
           THEN Done(r, "post_offers", req[r].raw, c.status, c.lookups)
           ELSE Pending(r, "post_offers", req[r].raw, "insert", c.lookups)

\* POST /offers: the insert
create_offer_insert(r) ==
    /\ req[r].pc = "insert"
    /\ req[r].ep = "post_offers"
    /\ Created(r, "transferoffer", OfferIn)

\* ----------------------------------------------------------- read handlers
\* serialize that adds "id" and leaves "_id" in place
serialize_KeepsNativeId(d) ==
    IF d = EmptyDoc THEN d
    ELSE IF "_id" \in DOMAIN d
         THEN [k \in DOMAIN d \cup {"id"} |-> IF k = "id" THEN JStr(OidStr(d["_id"].v)) ELSE d[k]]
         ELSE d

\* serialize(doc): "_id" replaced by "id", its string
serialize(d) ==
    IF d = EmptyDoc THEN d
    ELSE IF "_id" \in DOMAIN d
         THEN [k \in (DOMAIN d \ {"_id"}) \cup {"id"} |-> IF k = "id" THEN JStr(OidStr(d["_id"].v)) ELSE d[k]]
         ELSE d

\* the store's equality of two values: values of different kinds differ
BsonEq(a, b) == a.t = b.t /\ a.v = b.v

\* {"$lookup": {from, localField, foreignField, as}}
Lookup(docs, from, localField, foreignField, as) ==
    [i \in 1..Len(docs) |->
        (as :> JList(SelectSeq(db[from], LAMBDA f : BsonEq(Field(docs[i], localField), Field(f, foreignField))))) @@ docs[i]]

\* what $unwind makes of one document
UnwindOne(d, path, preserve) ==
    IF path \in DOMAIN d /\ d[path].t = "list" /\ Len(d[path].v) > 0
    THEN [j \in 1..Len(d[path].v) |-> (path :> JDoc(d[path].v[j])) @@ d]
    ELSE IF ~preserve THEN <<>>
    ELSE IF path \in DOMAIN d /\ d[path].t = "list" THEN <<[k \in DOMAIN d \ {path} |-> d[k]]>>
    ELSE <<d>>

\* {"$unwind": {path, preserveNullAndEmptyArrays}}
RECURSIVE Unwind(_, _, _)
Unwind(docs, path, preserve) ==
    IF docs = <<>> THEN <<>>
    ELSE UnwindOne(Head(docs), path, preserve) \o Unwind(Tail(docs), path, preserve)

\* d[key]["id"] = str(d[key].pop("_id")), under the handler's condition
FlattenNested(d, key) ==
    IF key \in DOMAIN d /\ d[key].t = "doc" /\ d[key].v # EmptyDoc /\ "_id" \in DOMAIN d[key].v
    THEN [d EXCEPT ![key] = JDoc(serialize(d[key].v))]
    ELSE d

list_players == [i \in 1..Len(get_documents("player")) |-> serialize(get_documents("player")[i])]

list_clubs == [i \in 1..Len(get_documents("club")) |-> serialize(get_documents("club")[i])]

ListingsPipeline ==
    Unwind(Lookup(Unwind(Lookup(db["transferlisting"], "player", "player_id", "_id", "player"), "player", FALSE),
                  "club", "from_club_id", "_id", "from_club"), "from_club", TRUE)

list_listings ==
    [i \in 1..Len(ListingsPipeline) |-> FlattenNested(FlattenNested(serialize(ListingsPipeline[i]), "player"), "from_club")]

OffersPipeline ==
    Unwind(Lookup(Unwind(Lookup(db["transferoffer"], "transferlisting", "listing_id", "_id", "listing"), "listing", FALSE),
                  "club", "club_id", "_id", "club"), "club", FALSE)

list_offers ==
    [i \in 1..Len(OffersPipeline) |-> FlattenNested(FlattenNested(serialize(OffersPipeline[i]), "listing"), "club")]

Answered(r, ep, result) == req' = [req EXCEPT ![r] = [Idle EXCEPT !.pc = "done", !.ep = ep, !.status = 200, !.result = result]]

\* GET /players
get_players(r) == Free(r) /\ Answered(r, "get_players", list_players) /\ UNCHANGED db

\* GET /clubs
get_clubs(r) == Free(r) /\ Answered(r, "get_clubs", list_clubs) /\ UNCHANGED db

\* GET /listings
get_listings(r) == Free(r) /\ Answered(r, "get_listings", list_listings) /\ UNCHANGED db

\* GET /offers
get_offers(r) == Free(r) /\ Answered(r, "get_offers", list_offers) /\ UNCHANGED db

\* ------------------------------------------------------------------ inputs
UpperOf(s) == [i \in 1..Len(s) |-> UpperDigits[HexVal[s[i]] + 1]]

\* the identifier strings of the documents of a collection
IdsOf(coll) == {JStr(OidStr(db[coll][i]["_id"].v)) : i \in 1..Len(db[coll])}

\* a well-formed identifier no document ever gets
NoSuchId == JStr(OidStr(OidBase - 1))

\* the empty string, and 24 characters one of which is no hex digit
MalformedIds == {JStr(<<>>), JStr([OidStr(OidBase) EXCEPT ![1] = "g"])}

\* the identifier string of the first document of a collection, if any
FirstIdOf(coll) == IF db[coll] = <<>> THEN {} ELSE {JStr(OidStr(db[coll][1]["_id"].v))}

PlayerBodies ==
    { [name |-> JStr("X"), position |-> JStr("Forward")],
      [name |-> JStr("Y"), position |-> JStr("Keeper"), age |-> JNum(25), height_cm |-> JNum(180), skills |-> JList(<<"pace">>), market_value |-> JNum(1000)],
      [name |-> JStr("Z"), position |-> JStr("Forward"), age |-> JNum(7), height_cm |-> JNum(99), market_value |-> JNum(-1)],
      [position |-> JStr("Forward")] }

ClubBodies ==
    { [name |-> JStr("Roma")],
      [league |-> JStr("Serie A")] }

ListingBodies ==
    {[player_id |-> p, asking_price |-> JNum(1000)] :
        p \in IdsOf("player") \cup {JStr(UpperOf(x.v)) : x \in FirstIdOf("player")} \cup FirstIdOf("club") \cup {NoSuchId} \cup MalformedIds}
    \cup {[player_id |-> p, from_club_id |-> c, asking_price |-> JNum(1000)] :
        p \in FirstIdOf("player") \cup {NoSuchId} \cup MalformedIds,
        c \in FirstIdOf("club") \cup {NoSuchId} \cup MalformedIds}
    \cup {[player_id |-> p] : p \in FirstIdOf("player")}

OfferBodies ==
    {[listing_id |-> l, club_id |-> c, offer_amount |-> JNum(500)] :
        l \in IdsOf("transferlisting") \cup FirstIdOf("player") \cup {NoSuchId} \cup MalformedIds,
        c \in IdsOf("club") \cup {NoSuchId} \cup MalformedIds}
    \cup {[listing_id |-> l, club_id |-> c] : l \in FirstIdOf("transferlisting"), c \in FirstIdOf("club")}

\* the response leaves: the client is free for its next request
respond(r) == req[r].pc = "done" /\ req' = [req EXCEPT ![r] = Idle] /\ UNCHANGED db

\* one client, its requests one after the other
Next ==
    \E r \in {"c1"} :
        \/ \E raw \in PlayerBodies : create_player(r, raw)
        \/ \E raw \in ClubBodies : create_club(r, raw)
        \/ \E raw \in ListingBodies : create_listing(r, raw)
        \/ create_listing_insert(r)
        \/ \E raw \in OfferBodies : create_offer(r, raw)
        \/ create_offer_club(r)
        \/ create_offer_insert(r)
        \/ get_players(r)
        \/ get_clubs(r)
        \/ get_listings(r)
        \/ get_offers(r)
        \/ respond(r)

Spec == Init /\ [][Next]_vars

\* two clients, their requests interleaved store call by store call
NextConc ==
    \E r \in Clients :
        \/ create_player(r, [name |-> JStr("X"), position |-> JStr("Forward")])
        \/ create_club(r, [name |-> JStr("Roma")])
        \/ \E p \in IdsOf("player") \cup {NoSuchId} : create_listing(r, [player_id |-> p, asking_price |-> JNum(1000)])
        \/ create_listing_insert(r)
        \/ \E l \in IdsOf("transferlisting") \cup {NoSuchId}, c \in IdsOf("club") \cup {NoSuchId} :
               create_offer(r, [listing_id |-> l, club_id |-> c, offer_amount |-> JNum(500)])
        \/ create_offer_club(r)
        \/ create_offer_insert(r)
        \/ respond(r)

SpecConc == Init /\ [][NextConc]_vars

\* ------------------------------------------------- the schemas' field rules
\* a value that is a number outside lo..hi
OutOfRange(d, f, lo, hi) == f \in DOMAIN d /\ d[f].t = "num" /\ (d[f].v < lo \/ d[f].v > hi)

Negative(d, f) == f \in DOMAIN d /\ d[f].t = "num" /\ d[f].v < 0

NotIn(d, f, values) == f \in DOMAIN d /\ d[f].t = "str" /\ d[f].v \notin values

\* a body that breaks a rule of schemas.Player
ViolatesPlayer(raw) ==
    \/ ~Validates(PlayerIn, raw)
    \/ OutOfRange(raw, "age", 8, 60)
    \/ OutOfRange(raw, "height_cm", 100, 230)
    \/ Negative(raw, "market_value")

\* a body that breaks a rule of schemas.Club
ViolatesClub(raw) == ~Validates(ClubIn, raw) \/ Negative(raw, "budget")

\* a body that breaks a rule of schemas.Transferlisting
ViolatesListing(raw) ==
    \/ ~Validates(ListingIn, raw)
    \/ Negative(raw, "asking_price")
    \/ NotIn(raw, "status", {"open", "under_review", "closed"})

\* a body that breaks a rule of schemas.Transferoffer
ViolatesOffer(raw) ==
    \/ ~Validates(OfferIn, raw)
    \/ Negative(raw, "offer_amount")
    \/ NotIn(raw, "status", {"pending", "accepted", "rejected"})

Violates(ep, raw) ==
    \/ ep = "post_players" /\ ViolatesPlayer(raw)
    \/ ep = "post_clubs" /\ ViolatesClub(raw)
    \/ ep = "post_listings" /\ ViolatesListing(raw)
    \/ ep = "post_offers" /\ ViolatesOffer(raw)

\* ------------------------------------------------------------------ claims
Answer(r, ep) == req[r].pc = "done" /\ req[r].ep = ep

ListingOf(r) == ModelDump(ListingIn, req[r].raw)

OfferOf(r) == ModelDump(OfferIn, req[r].raw)

\* a finished POST /listings whose body passed validation and whose player_id
\* is well-formed and names no player
UnknownPlayer(r) ==
    /\ Answer(r, "post_listings")
    /\ Validates(ListingIn, req[r].raw)
    /\ ObjectIdIsValid(ListingOf(r).player_id)
    /\ ~FindOne("player", ObjectId(ListingOf(r).player_id))

FromClubPassesFormat(r) == ~Truthy(ListingOf(r).from_club_id) \/ ObjectIdIsValid(ListingOf(r).from_club_id)

\* C1 as stated: every POST /listings whose player_id is well-formed and names
\* no player ends in 404 and writes nothing.
C1_UnknownPlayerAlways404 == \A r \in Clients : UnknownPlayer(r) => req[r].status = 404 /\ ~req[r].wrote

\* C1 amended: a POST /listings whose player_id is well-formed and names no
\* player, and whose from_club_id is omitted, null, empty or well-formed, ends
\* in 404 after one lookup and writes nothing.
C1_UnknownPlayer404 ==
    \A r \in Clients :
        UnknownPlayer(r) /\ FromClubPassesFormat(r) => req[r].status = 404 /\ req[r].lookups = 1 /\ ~req[r].wrote

C1_Witness ==
    \E r \in Clients :
        /\ UnknownPlayer(r)
        /\ FromClubPassesFormat(r)
        /\ req[r].status = 404
        /\ db["player"] # <<>>

\* C2: a POST /listings whose player_id is not a valid identifier string ends
\* in 400, having made no lookup and no write.
C2_MalformedPlayerId400 ==
    \A r \in Clients :
        Answer(r, "post_listings") /\ Validates(ListingIn, req[r].raw) /\ ~ObjectIdIsValid(ListingOf(r).player_id)
            => req[r].status = 400 /\ req[r].lookups = 0 /\ ~req[r].wrote

C2_Witness ==
    \E r \in Clients :
        /\ Answer(r, "post_listings")
        /\ Validates(ListingIn, req[r].raw)
        /\ ~ObjectIdIsValid(ListingOf(r).player_id)
        /\ ListingOf(r).player_id.v # <<>>
        /\ req[r].status = 400

\* the entries of a GET /listings answer for the stored listing l
EntriesFor(result, l) == {j \in 1..Len(result) : "id" \in DOMAIN result[j] /\ result[j]["id"] = JStr(OidStr(l["_id"].v))}

NestedId(e, key, id) ==
    /\ key \in DOMAIN e
    /\ e[key].t = "doc"
    /\ "id" \in DOMAIN e[key].v
    /\ e[key].v["id"] = id

\* C3: GET /listings holds exactly one entry for each listing created with the
\* returned id of a player and the returned id of a club, and its nested
\* player.id and from_club.id are those ids.
C3_RoundTripJoin ==
    \A r \in Clients :
        Answer(r, "get_listings") =>
            \A i \in 1..Len(db["transferlisting"]) :
                LET l == db["transferlisting"][i]
                    found == EntriesFor(req[r].result, l)
                IN  l["player_id"] \in IdsOf("player") /\ l["from_club_id"] \in IdsOf("club") =>
                        /\ Cardinality(found) = 1
                        /\ \A j \in found :
                               /\ NestedId(req[r].result[j], "player", l["player_id"])
                               /\ NestedId(req[r].result[j], "from_club", l["from_club_id"])

\* C4: GET /listings holds an entry for each listing created without
\* from_club_id, with its nested player and without a from_club key.
C4_OptionalReferenceOmitted ==
    \A r \in Clients :
        Answer(r, "get_listings") =>
            \A i \in 1..Len(db["transferlisting"]) :
                LET l == db["transferlisting"][i]
                IN  l["from_club_id"] = JNull =>
                        \E j \in EntriesFor(req[r].result, l) :
                            /\ "player" \in DOMAIN req[r].result[j]
                            /\ "from_club" \notin DOMAIN req[r].result[j]

\* the documents of every collection, as <<collection, index>>
AllDocs == {<<c, i>> : c \in Collections, i \in 1..MaxDocs + 1} \cap {x \in Collections \X (1..MaxDocs + 1) : x[2] <= Len(db[x[1]])}

Refers(d, field, coll) == ObjectIdIsValid(d[field]) /\ FindOne(coll, ObjectId(d[field]))

CollectionOf(ep) == IF ep = "post_players" THEN "player" ELSE IF ep = "post_clubs" THEN "club" ELSE IF ep = "post_listings" THEN "transferlisting" ELSE "transferoffer"

\* C5: under every interleaving of create requests, every stored listing's
\* player_id names a stored player, every stored offer's listing_id and club_id
\* name a stored listing and a stored club, no two documents share an
\* identifier, a request that has passed its lookups still has its targets, and
\* every successful create returned the identifier of a stored document of its
\* collection.
C5_ReferentialIntegrity ==
    /\ \A i \in 1..Len(db["transferlisting"]) : Refers(db["transferlisting"][i], "player_id", "player")
    /\ \A i \in 1..Len(db["transferoffer"]) :
           /\ Refers(db["transferoffer"][i], "listing_id", "transferlisting")
           /\ Refers(db["transferoffer"][i], "club_id", "club")
    /\ \A x, y \in AllDocs : db[x[1]][x[2]]["_id"] = db[y[1]][y[2]]["_id"] => x = y
    /\ \A r \in Clients :
           /\ req[r].pc = "insert" /\ req[r].ep = "post_listings" => Refers(ListingOf(r), "player_id", "player")
           /\ req[r].pc = "insert" /\ req[r].ep = "post_offers" =>
                  Refers(OfferOf(r), "listing_id", "transferlisting") /\ Refers(OfferOf(r), "club_id", "club")
           /\ req[r].pc = "done" /\ req[r].wrote => FindOne(CollectionOf(req[r].ep), ObjectId(JStr(req[r].id)))
    /\ \A r1, r2 \in Clients : r1 # r2 /\ req[r1].wrote /\ req[r2].wrote => req[r1].id # req[r2].id

\* two offers on the same listing by the same club: one stored, its answer not
\* yet taken, the other past both lookups
C5_Witness ==
    \E r1, r2 \in Clients :
        /\ r1 # r2
        /\ req[r1].pc = "done" /\ req[r1].ep = "post_offers" /\ req[r1].wrote
        /\ req[r2].pc = "insert" /\ req[r2].ep = "post_offers"
        /\ req[r1].raw = req[r2].raw

\* from_club_id counts as supplied: when it is not null (emptyCounts), or when
\* it is neither null nor the empty string
FromClubSupplied(m, emptyCounts) == IF emptyCounts THEN m.from_club_id.t # "null" ELSE Truthy(m.from_club_id)

ListingIdsWellFormed(m, emptyCounts) ==
    /\ ObjectIdIsValid(m.player_id)
    /\ FromClubSupplied(m, emptyCounts) => ObjectIdIsValid(m.from_club_id)

OfferIdsWellFormed(m) == ObjectIdIsValid(m.listing_id) /\ ObjectIdIsValid(m.club_id)

\* format checks of all supplied ids, then the lookups, then the write
ChecksInOrder(emptyCounts) ==
    \A r \in Clients :
        /\ req[r].ep = "post_listings" /\ Validates(ListingIn, req[r].raw) =>
               LET m == ListingOf(r)
               IN  /\ req[r].pc = "done" /\ ~ListingIdsWellFormed(m, emptyCounts) =>
                          req[r].status = 400 /\ req[r].lookups = 0 /\ ~req[r].wrote
                   /\ req[r].pc = "done" /\ ListingIdsWellFormed(m, emptyCounts) /\ ~FindOne("player", ObjectId(m.player_id)) =>
                          req[r].status = 404 /\ ~req[r].wrote
                   /\ req[r].pc = "insert" \/ req[r].wrote =>
                          ListingIdsWellFormed(m, emptyCounts) /\ req[r].lookups = 1 /\ FindOne("player", ObjectId(m.player_id))
        /\ req[r].ep = "post_offers" /\ Validates(OfferIn, req[r].raw) =>
               LET m == OfferOf(r)
               IN  /\ req[r].pc = "done" /\ ~OfferIdsWellFormed(m) =>
                          req[r].status = 400 /\ req[r].lookups = 0 /\ ~req[r].wrote
                   /\ /\ req[r].pc = "done"
                      /\ OfferIdsWellFormed(m)
                      /\ ~(FindOne("transferlisting", ObjectId(m.listing_id)) /\ FindOne("club", ObjectId(m.club_id)))
                      => req[r].status = 404 /\ ~req[r].wrote
                   /\ req[r].pc = "club" => OfferIdsWellFormed(m) /\ req[r].lookups = 1
                   /\ req[r].pc = "insert" \/ req[r].wrote =>
                          /\ OfferIdsWellFormed(m)
                          /\ req[r].lookups = 2
                          /\ FindOne("transferlisting", ObjectId(m.listing_id))
                          /\ FindOne("club", ObjectId(m.club_id))

C7_StructuralRulesEnforced ==
    \A r \in Clients :
        req[r].pc # "idle" /\ Violates(req[r].ep, req[r].raw) =>
            req[r].pc = "done" /\ req[r].status = 422 /\ req[r].lookups = 0 /\ ~req[r].wrote

\* the listed document d is the body raw of schema, defaults applied, under id
ListedAs(d, schema, raw, id, defaults) ==
    /\ DOMAIN d = DOMAIN schema \cup {"id"}
    /\ d["id"] = JStr(id)
    /\ \A f \in DOMAIN schema : d[f] = IF f \in DOMAIN raw THEN raw[f] ELSE IF f \in DOMAIN defaults THEN defaults[f] ELSE JNull

\* C8: a POST /players (POST /clubs) with a valid body succeeds, and GET
\* /players (GET /clubs) then lists a document whose id is the returned id and
\* whose other fields are the body's, skills defaulting to the empty list
\* (budget to 0) and every other omitted field to null.
C8_CreateThenList ==
    \A r \in Clients :
        /\ Answer(r, "post_players") /\ ~ViolatesPlayer(req[r].raw) =>
               /\ req[r].status = 200
               /\ \E j \in 1..Len(list_players) :
                      ListedAs(list_players[j], PlayerIn, req[r].raw, req[r].id, [skills |-> JList(<<>>)])
        /\ Answer(r, "post_clubs") /\ ~ViolatesClub(req[r].raw) =>
               /\ req[r].status = 200
               /\ \E j \in 1..Len(list_clubs) :
                      ListedAs(list_clubs[j], ClubIn, req[r].raw, req[r].id, [budget |-> JNum(0)])

C8_Witness ==
    \E r \in Clients :
        /\ Answer(r, "post_players")
        /\ ~ViolatesPlayer(req[r].raw)
        /\ "skills" \notin DOMAIN req[r].raw
        /\ Len(list_players) > 1
        /\ list_players[Len(list_players)]["skills"] = JList(<<>>)

\* d shows its identifier as a string under "id" and not under "_id"
Flattened(d) == "_id" \notin DOMAIN d /\ "id" \in DOMAIN d /\ d["id"].t = "str"

\* d is the stored document s with "_id" replaced by "id"
Projects(d, s) ==
    /\ DOMAIN d = (DOMAIN s \ {"_id"}) \cup {"id"}
    /\ d["id"] = JStr(OidStr(s["_id"].v))
    /\ \A k \in DOMAIN s \ {"_id"} : d[k] = s[k]

ReadEndpoints == {"get_players", "get_clubs", "get_listings", "get_offers"}

C10_FromClubValidatedWhenPresent ==
    \A r \in Clients :
        Answer(r, "post_listings") /\ Validates(ListingIn, req[r].raw) =>
            LET m == ListingOf(r)
            IN  /\ m.from_club_id.t = "null" /\ Refers(m, "player_id", "player") => req[r].status = 200
                /\ Truthy(m.from_club_id) /\ ~ObjectIdIsValid(m.from_club_id) => req[r].status = 400 /\ ~req[r].wrote
                /\ /\ Truthy(m.from_club_id)
                   /\ ObjectIdIsValid(m.from_club_id)
                   /\ ~FindOne("club", ObjectId(m.from_club_id))
                   => req[r].status \in {400, 404} /\ ~req[r].wrote

====
